---- MODULE Spec2Model ----
(***************************************************************************)
(* Model of omxsync.receiver.Receiver: the follower-side synchronisation   *)
(* engine of pyOmxSync.                                                     *)
(*                                                                         *)
(* Seconds are fixed-point: one unit is 0.025 s, so that the tolerance of  *)
(* .05 s is 2 units and the mean of two deviations that are multiples of   *)
(* 0.1 s is exact.  An optional value (Python None or a value) is a set of *)
(* at most one element.                                                    *)
(***************************************************************************)
EXTENDS Integers, Sequences, FiniteSets, TLC

VARIABLES
    received_position,  \* self.received_position  (optional number)
    received_duration,  \* self.received_duration  (optional number)
    received_status,    \* self.received_status    (optional string)
    last_measure_time,  \* self.last_measure_time
    paused_until,       \* self.paused_until       (optional number)
    dont_sync_until,    \* self.dont_sync_until
    deviation,          \* self.deviation
    deviations,         \* self.deviations, a deque(maxlen=10)
    median_deviation,   \* self.median_deviation
    duration_match,     \* self.duration_match     (None or True)
    rate,               \* self.rate
    playerStatus,       \* the playback status of self.player
    now,                \* the wall clock read by time()
    cmds,               \* the commands the last operation sent to self.player
    exit,               \* the place where the last operation returned
    err,                \* the exception the last operation raised, or "none"
    local_status,       \* the local_status read by the last tick (optional)
    rate_before,        \* self.rate when the last operation started
    pushed,             \* every deviation appended since the last clear()
    mismatched,         \* a tick has printed the duration mismatch
    rate_sent,          \* speed-ups minus slow-downs sent since the start
    ops                 \* the number of operations performed

vars == <<received_position, received_duration, received_status,
          last_measure_time, paused_until, dont_sync_until, deviation,
          deviations, median_deviation, duration_match, rate, playerStatus,
          now, cmds, exit, err, local_status, rate_before, pushed,
          mismatched, rate_sent, ops>>

----------------------------------------------------------------------------
(* Program constants, in units of 0.025 s where they are seconds.          *)

DEFAULT_TOLERANCE == 2
DEFAULT_GRACE_TIME == 120
DEFAULT_JUMP_AHEAD == 120
DEQUE_MAXLEN == 10

(* Bounds of the model.                                                     *)

MaxOps == 3         \* operations per behaviour of Spec
MaxHistOps == 12    \* operations per behaviour of SpecHist
MaxResumeOps == 6   \* operations per behaviour of SpecResume
MaxLoopOps == 4     \* iterations per behaviour of SpecLoop
StartTime == 600    \* the wall clock when the engine is constructed

None == {}
Some(v) == {v}
Val(o) == CHOOSE v \in o : TRUE

(* Python truthiness of an optional number: None and 0 are false.          *)
Truthy(o) == o # None /\ Val(o) # 0

Abs(x) == IF x < 0 THEN -x ELSE x

Range(seq) == {seq[i] : i \in 1..Len(seq)}

----------------------------------------------------------------------------
(* The inputs of a tick.                                                    *)

Statuses == {"Playing", "Paused", "Stopped"}

(* The decimal strings the datagrams carry and the value float() gives.    *)
Numeric == {"3.0", "4.0", "9.0", "9.9"}

ParseFloat(str) ==
    CASE str = "3.0" -> 120
      [] str = "4.0" -> 160
      [] str = "9.0" -> 360
      [] str = "9.9" -> 396

(* What socket.recv gives: nothing (it raises), or bytes, which are        *)
(* modelled by whether they decode and their text cut at every '%'.        *)
NoDatagram == [pending |-> FALSE, decodable |-> FALSE, fields |-> <<>>]
Datagram(fs) == [pending |-> TRUE, decodable |-> TRUE, fields |-> fs]
Undecodable == [pending |-> TRUE, decodable |-> FALSE, fields |-> <<>>]

(* The leader at 4.0 s of the follower's file (9.9 s long) in each status, *)
(* at 3.0 s of it, and at 4.0 s of a file that is 9.0 s long.               *)
WellFormed ==
    {Datagram(<<"4.0", "9.9", st>>) : st \in Statuses}
        \cup {Datagram(<<"3.0", "9.9", "Playing">>),
              Datagram(<<"4.0", "9.0", "Playing">>)}

Malformed ==
    {Undecodable, Datagram(<<"abc">>), Datagram(<<"4.0", "9.9">>),
     Datagram(<<"abc", "9.9", "Playing">>),
     Datagram(<<"4.0", "abc", "Playing">>),
     Datagram(<<"4.0", "9.9", "Playing", "Paused">>)}

Datagrams == {NoDatagram} \cup WellFormed \cup Malformed

(* What player.position() gives: None, or 3.0 s, 4.0 s, 4.1 s, 7.0 s.      *)
LocalPositions == {None, Some(120), Some(160), Some(164), Some(280)}

(* What player.duration() gives: None, or 9.9 s.                            *)
LocalDurations == {None, Some(396)}

(* How far the wall clock moves between two operations.                    *)
TimeSteps == {60, 120}

----------------------------------------------------------------------------
(* The engine as a record, so that the methods are operators on it.        *)

Self ==
    [received_position |-> received_position,
     received_duration |-> received_duration,
     received_status |-> received_status,
     last_measure_time |-> last_measure_time,
     paused_until |-> paused_until,
     dont_sync_until |-> dont_sync_until,
     deviation |-> deviation,
     deviations |-> deviations,
     median_deviation |-> median_deviation,
     duration_match |-> duration_match,
     rate |-> rate,
     playerStatus |-> playerStatus,
     cmds |-> <<>>,
     exit |-> "running",
     err |-> "none",
     local_status |-> None,
     pushed |-> pushed,
     mismatched |-> mismatched]

Cmd(name, arg) == [name |-> name, arg |-> arg]

(* The playback status of the player after a command; a player that has   *)
(* stopped stays stopped.                                                   *)
PlayerAfter(status, name) ==
    CASE status = "Stopped" -> "Stopped"
      [] name = "play" -> "Playing"
      [] name = "pause" -> "Paused"
      [] name = "play_pause" ->
            IF status = "Playing" THEN "Paused"
            ELSE IF status = "Paused" THEN "Playing" ELSE status
      [] OTHER -> status

Issue(s, name, arg) ==
    [s EXCEPT !.cmds = Append(@, Cmd(name, arg)),
              !.playerStatus = PlayerAfter(@, name)]

Return(s, where) == [s EXCEPT !.exit = where]

Raise(s, where, what) == [s EXCEPT !.exit = where, !.err = what]

----------------------------------------------------------------------------
(* Receiver._receive_data                                                   *)

(* '%'.join of the fields after the second '%'.                             *)
JoinPercent(fs) ==
    IF Len(fs) = 1 THEN fs[1]
    ELSE IF fs = <<"Playing", "Paused">> THEN "Playing%Paused" ELSE "%"

(* text.split('%', 2), on the text cut at every '%'.                        *)
SplitMax2(fs) ==
    IF Len(fs) <= 3 THEN fs
    ELSE <<fs[1], fs[2], JoinPercent(SubSeq(fs, 3, Len(fs)))>>

(* The tuple (pos, duration, playback_status), or None when recv, decode   *)
(* or the unpacking into three names raises.                                *)
ReceiveData(r) ==
    IF ~r.pending \/ ~r.decodable THEN None
    ELSE IF Len(SplitMax2(r.fields)) # 3 THEN None
    ELSE Some(SplitMax2(r.fields))

----------------------------------------------------------------------------
(* Receiver._calculate_median                                               *)

CalculateMedian(lst) ==
    LET sorted == SortSeq(lst, LAMBDA a, b : a < b)
        quotient == Len(lst) \div 2
        remainder == Len(lst) % 2
    IN  IF remainder # 0 THEN sorted[quotient + 1]
        ELSE (sorted[quotient] + sorted[quotient + 1]) \div 2

(* deque(maxlen=10).append                                                  *)
DequeAppend_Unbounded(dq, x) == Append(dq, x)

DequeAppend(dq, x) ==
    IF Len(dq) < DEQUE_MAXLEN THEN Append(dq, x) ELSE Append(Tail(dq), x)

----------------------------------------------------------------------------
(* Receiver._perform_small_sync                                             *)

PerformSmallSync_Unbounded(s) ==
    IF s.deviation < 0
    THEN [Issue(s, "action", 1) EXCEPT !.rate = @ - 1]
    ELSE IF s.deviation > 0
    THEN [Issue(s, "action", 2) EXCEPT !.rate = @ + 1]
    ELSE s

PerformSmallSync_RateNotTracked(s) ==
    IF s.deviation < 0 /\ s.rate > 0
    THEN Issue(s, "action", 1)
    ELSE IF s.deviation > 0 /\ s.rate < 2
    THEN Issue(s, "action", 2)
    ELSE s

PerformSmallSync(s) ==
    IF s.deviation < 0 /\ s.rate > 0
    THEN [Issue(s, "action", 1) EXCEPT !.rate = @ - 1]
    ELSE IF s.deviation > 0 /\ s.rate < 2
    THEN [Issue(s, "action", 2) EXCEPT !.rate = @ + 1]
    ELSE s

(* Receiver._reset_small_sync                                               *)

ResetSmallSync_SameDirection(s) ==
    LET t == IF s.rate = 2 THEN Issue(s, "action", 2)
             ELSE IF s.rate = 0 THEN Issue(s, "action", 1) ELSE s
    IN  [t EXCEPT !.rate = 1]

ResetSmallSync(s) ==
    LET t == IF s.rate = 2 THEN Issue(s, "action", 1)
             ELSE IF s.rate = 0 THEN Issue(s, "action", 2) ELSE s
    IN  [t EXCEPT !.rate = 1]

(* Receiver._perform_big_sync                                               *)

AheadByLessThanJump_Inclusive(s) ==
    s.deviation < 0 /\ Abs(s.deviation) <= DEFAULT_JUMP_AHEAD

AheadByLessThanJump(s) ==
    s.deviation < 0 /\ Abs(s.deviation) < DEFAULT_JUMP_AHEAD

PerformBigSync(s) ==
    IF AheadByLessThanJump(s)
    THEN Return([Issue(s, "pause", 0) EXCEPT
                    !.paused_until = Some(s.last_measure_time - s.deviation)],
                "big_wait")
    ELSE IF s.received_position = None
    THEN Raise(s, "big_sync", "TypeError")     \* None + self.jump_ahead
    ELSE LET pos == Val(s.received_position) + DEFAULT_JUMP_AHEAD
         IN  Return([Issue(Issue(s, "pause", 0), "set_position", pos) EXCEPT
                        !.paused_until =
                            Some(s.last_measure_time + DEFAULT_JUMP_AHEAD)],
                    "big_seek")

----------------------------------------------------------------------------
(* Receiver.update                                                          *)

(* "still at start ... of video, don't sync"                                *)
AtStart_Strict(s) == Val(s.received_position) < DEFAULT_GRACE_TIME

AtStart(s) == Val(s.received_position) <= DEFAULT_GRACE_TIME

(* "... or end of video"                                                    *)
NearEnd_FromLeaderPosition(s, local_pos) ==
    (Val(s.received_duration) - Val(s.received_position)) < DEFAULT_GRACE_TIME

NearEnd(s, local_pos) ==
    (Val(s.received_duration) - local_pos) < DEFAULT_GRACE_TIME

(* "not deviated very much, nothing to sync"                                *)
InTolerance(s) == Abs(s.median_deviation) <= DEFAULT_TOLERANCE

(* "still in post-sync gracetime"                                           *)
InPostSyncGrace_Inverted(s) == s.last_measure_time > s.dont_sync_until

InPostSyncGrace(s) == s.last_measure_time < s.dont_sync_until

(* self.deviations.append(self.deviation) and the median                    *)
RecordDeviation(s) ==
    LET dq == DequeAppend(s.deviations, s.deviation)
    IN  [s EXCEPT !.deviations = dq,
                  !.pushed = Append(@, s.deviation),
                  !.median_deviation = CalculateMedian(dq)]

(* self.deviations.clear()                                                  *)
ClearDeviations(s) == [s EXCEPT !.deviations = <<>>, !.pushed = <<>>]

(* From "calculate median deviation" to the end of update.                  *)
Correct(s0, local_pos) ==
    LET s == RecordDeviation(s0)
    IN  IF AtStart(s) THEN Return(s, "at_start")
        ELSE IF NearEnd(s, local_pos)
        THEN Return(IF s.rate # 1 THEN ResetSmallSync(s) ELSE s, "near_end")
        ELSE IF InTolerance(s)
        THEN Return(IF s.rate # 1 THEN ResetSmallSync(s) ELSE s,
                    "in_tolerance")
        ELSE IF InPostSyncGrace(s) THEN Return(s, "post_sync_grace")
        ELSE Return(PerformSmallSync(ClearDeviations(s)), "small_sync")

(* "check file": the comparison with float(self.player.duration()).         *)
CheckFile_EveryTick(s, local_pos, local_duration) ==
    IF local_duration = None
    THEN Raise(s, "check_file", "TypeError")
    ELSE IF ~(Val(s.received_duration) = Val(local_duration))
    THEN Return([s EXCEPT !.mismatched = TRUE], "mismatch")
    ELSE Correct([s EXCEPT !.duration_match = Some(TRUE)], local_pos)

CheckFile(s, local_pos, local_duration) ==
    IF s.duration_match = None
    THEN IF local_duration = None
         THEN Raise(s, "check_file", "TypeError")    \* float(None)
         ELSE IF ~(Val(s.received_duration) = Val(local_duration))
         THEN Return([s EXCEPT !.mismatched = TRUE], "mismatch")
         ELSE Correct([s EXCEPT !.duration_match = Some(TRUE)], local_pos)
    ELSE Correct(s, local_pos)

(* The play/pause toggle when the two statuses differ.                     *)
MatchStatus_Skipped(s) == s

MatchStatus(s) ==
    IF s.local_status # s.received_status
    THEN Issue(s, "play_pause", 0) ELSE s

(* From "store received data" to the deviation.                             *)
Process(s0, data, local_pos, local_duration) ==
    IF data[1] \notin Numeric
    THEN Raise(s0, "store", "ValueError")       \* float(data[0])
    ELSE LET s1 == [s0 EXCEPT !.received_position =
                                  Some(ParseFloat(data[1]))]
         IN  IF data[2] \notin Numeric
             THEN Raise(s1, "store", "ValueError")  \* float(data[1])
             ELSE LET s2 == [s1 EXCEPT
                                !.received_duration =
                                    Some(ParseFloat(data[2])),
                                !.received_status = Some(data[3])]
                      s3 == MatchStatus(s2)
                  IN  IF s3.received_status = Some("Paused")
                      THEN Return(s3, "leader_paused")
                      ELSE CheckFile(
                             [s3 EXCEPT !.deviation =
                                 Val(s3.received_position) - local_pos],
                             local_pos, local_duration)

(* "still waiting"                                                          *)
StillWaiting_Inverted(s) == s.last_measure_time > Val(s.paused_until)

StillWaiting(s) == s.last_measure_time < Val(s.paused_until)

(* "stop waiting and resume playback"                                       *)
ResumePlayback_KeepsDeadline(s) ==
    [Issue(s, "play", 0) EXCEPT
        !.dont_sync_until = s.last_measure_time + DEFAULT_GRACE_TIME]

ResumePlayback(s) ==
    [Issue([s EXCEPT !.paused_until = None], "play", 0) EXCEPT
        !.dont_sync_until = s.last_measure_time + DEFAULT_GRACE_TIME]

(* "paused for master to catch-up?" and "no data? no action."               *)
Resume(s, data, local_pos, local_duration) ==
    LET s1 == IF Truthy(s.paused_until) THEN ResumePlayback(s) ELSE s
    IN  IF Truthy(s.paused_until) /\ StillWaiting(s)
        THEN Return(s, "waiting")
        ELSE IF data = None THEN Return(s1, "no_data")
        ELSE Process(s1, Val(data), local_pos, local_duration)

(* One call of update(): r is what the socket holds, local_pos and         *)
(* status what the player's reads give, time what time() gives.            *)
Update(s, r, local_pos, status, local_duration, time) ==
    LET data == ReceiveData(r)
    IN  IF local_pos = None THEN Return(s, "no_position")
        ELSE IF status = None THEN Return(s, "no_status")
        ELSE Resume([s EXCEPT !.last_measure_time = time,
                              !.local_status = status],
                    data, Val(local_pos), local_duration)

----------------------------------------------------------------------------
(* The state machine.                                                       *)

(* Receiver.__init__                                                        *)
Init ==
    /\ received_position = None
    /\ received_duration = None
    /\ received_status = None
    /\ last_measure_time = 0
    /\ paused_until = None
    /\ dont_sync_until = 0
    /\ deviation = 0
    /\ deviations = <<>>
    /\ median_deviation = 0
    /\ duration_match = None
    /\ rate = 1
    /\ playerStatus \in {"Playing", "Paused"}
    /\ now = StartTime
    /\ cmds = <<>>
    /\ exit = "init"
    /\ err = "none"
    /\ local_status = None
    /\ rate_before = 1
    /\ pushed = <<>>
    /\ mismatched = FALSE
    /\ rate_sent = 0
    /\ ops = 0

(* The speed-ups (action 2) minus the slow-downs (action 1) among commands. *)
NetRate(cs) ==
    Len(SelectSeq(cs, LAMBDA c : c = Cmd("action", 2)))
        - Len(SelectSeq(cs, LAMBDA c : c = Cmd("action", 1)))

(* The engine's fields after an operation that left it as the record s.    *)
Commit(s) ==
    /\ received_position' = s.received_position
    /\ received_duration' = s.received_duration
    /\ received_status' = s.received_status
    /\ last_measure_time' = s.last_measure_time
    /\ paused_until' = s.paused_until
    /\ dont_sync_until' = s.dont_sync_until
    /\ deviation' = s.deviation
    /\ deviations' = s.deviations
    /\ median_deviation' = s.median_deviation
    /\ duration_match' = s.duration_match
    /\ rate' = s.rate
    /\ playerStatus' = s.playerStatus
    /\ cmds' = s.cmds
    /\ exit' = s.exit
    /\ err' = s.err
    /\ local_status' = s.local_status
    /\ pushed' = s.pushed
    /\ mismatched' = s.mismatched
    /\ rate_before' = rate
    /\ rate_sent' = rate_sent + NetRate(s.cmds)

(* One iteration of update_loop, or one call of update(), with the inputs  *)
(* drawn from the given sets.  An exception ends the engine.               *)
TickOn(r, local_pos, status, local_duration, step) ==
    /\ err = "none"
    /\ exit # "loop_exit"
    /\ Commit(Update(Self, r, local_pos, status, local_duration, now + step))
    /\ now' = now + step
    /\ ops' = ops + 1

(* What player.playback_status() gives: None, or the player's status.      *)
StatusReads == {None, Some(playerStatus)}

(* The test of update_loop's while: the status read is not "Stopped".      *)
LoopCheck(check) == check # Some("Stopped")

Tick(datagrams, positions, durations, steps, cap) ==
    /\ ops < cap
    /\ \E check \in StatusReads : LoopCheck(check)
    /\ \E local_pos \in positions, status \in StatusReads, step \in steps :
          IF local_pos = None \/ status = None
          THEN \* update returns before it looks at the datagram, whatever
               \* it is, and never reads the duration
               TickOn(NoDatagram, local_pos, status, None, step)
          ELSE \E r \in datagrams, local_duration \in durations :
                  TickOn(r, local_pos, status, local_duration, step)

(* A call of _perform_big_sync(), which update() never makes itself.       *)
BigSyncWithin(cap) ==
    /\ err = "none"
    /\ exit # "loop_exit"
    /\ ops < cap
    /\ Commit(PerformBigSync(Self))
    /\ now' = now
    /\ ops' = ops + 1

BigSync == BigSyncWithin(MaxOps)

Next ==
    \/ Tick(Datagrams, LocalPositions, LocalDurations, TimeSteps, MaxOps)
    \/ BigSync

Spec == Init /\ [][Next]_vars

(* Ticks of a session in which every datagram is well formed, the leader   *)
(* plays the follower's file at 4.0 s and the follower is at 4.0 s or      *)
(* 4.1 s: long enough for the deviation history to fill up and wrap.       *)
HistDatagrams == {Datagram(<<"4.0", "9.9", "Playing">>)}
HistPositions == {Some(160), Some(164)}
HistDurations == {Some(396)}
HistSteps == {60}

NextHist ==
    Tick(HistDatagrams, HistPositions, HistDurations, HistSteps, MaxHistOps)

SpecHist == Init /\ [][NextHist]_vars

(* Sessions of big syncs and ticks in which the leader plays the           *)
(* follower's file at 4.0 s and the follower is at 3.0 s or 4.1 s: long    *)
(* enough for a catch-up wait to run, end, and be followed by the ticks of *)
(* the post-resume grace time and after it.                                 *)
ResumeDatagrams == {NoDatagram, Datagram(<<"4.0", "9.9", "Playing">>)}
ResumePositions == {None, Some(120), Some(164)}
ResumeDurations == {Some(396)}

BigSyncOfSession == BigSyncWithin(MaxResumeOps)

NextResume ==
    \/ Tick(ResumeDatagrams, ResumePositions, ResumeDurations, TimeSteps,
            MaxResumeOps)
    \/ BigSyncOfSession

SpecResume == Init /\ [][NextResume]_vars

(* The player reaches the end of its file, or is stopped by its user.      *)
PlayerStops ==
    /\ err = "none"
    /\ exit # "loop_exit"
    /\ playerStatus # "Stopped"
    /\ playerStatus' = "Stopped"
    /\ UNCHANGED <<received_position, received_duration, received_status,
                   last_measure_time, paused_until, dont_sync_until,
                   deviation, deviations, median_deviation, duration_match,
                   rate, now, cmds, exit, err, local_status, rate_before,
                   pushed, mismatched, rate_sent, ops>>

(* update_loop's while reads "Stopped" and the loop ends.                  *)
LoopExit ==
    /\ err = "none"
    /\ exit # "loop_exit"
    /\ \E check \in StatusReads : ~LoopCheck(check)
    /\ exit' = "loop_exit"
    /\ cmds' = <<>>
    /\ local_status' = None
    /\ rate_before' = rate
    /\ UNCHANGED <<received_position, received_duration, received_status,
                   last_measure_time, paused_until, dont_sync_until,
                   deviation, deviations, median_deviation, duration_match,
                   rate, playerStatus, now, err, pushed, mismatched,
                   rate_sent, ops>>

(* Runs of update_loop on a bound socket until the player stops: the       *)
(* leader plays the follower's file at 4.0 s, some datagrams carry a       *)
(* position that is no number, and the follower is at 3.0 s or 4.0 s.      *)
LoopDatagrams ==
    {NoDatagram, Datagram(<<"4.0", "9.9", "Playing">>),
     Datagram(<<"abc", "9.9", "Playing">>)}
LoopPositions == {None, Some(120), Some(160)}

NextLoop ==
    \/ Tick(LoopDatagrams, LoopPositions, LocalDurations, HistSteps,
            MaxLoopOps)
    \/ PlayerStops
    \/ LoopExit

SpecLoop == Init /\ [][NextLoop]_vars

----------------------------------------------------------------------------
(* Vocabulary of the properties.                                            *)

(* The rate commands (player.action) among the last operation's commands.  *)
RateCmds == SelectSeq(cmds, LAMBDA c : c.name = "action")

SlowDown == Cmd("action", 1)
SpeedUp == Cmd("action", 2)
Toggle == Cmd("play_pause", 0)

(* The last operation was a tick that stored a sample (it passed            *)
(* "store received data").                                                  *)
ProcessedSample ==
    exit \in {"leader_paused", "check_file", "mismatch", "at_start",
              "near_end", "in_tolerance", "post_sync_grace", "small_sync"}

(* The last operation was a call of _perform_big_sync that returned.       *)
BigSynced == exit \in {"big_wait", "big_seek"}

(* The last k elements of a sequence (all of it when it is shorter).       *)
LastOf(seq, k) ==
    IF Len(seq) <= k THEN seq ELSE SubSeq(seq, Len(seq) - k + 1, Len(seq))

----------------------------------------------------------------------------
(* C1: once a tick has processed a sample whose duration differs from the  *)
(* follower's (and printed the mismatch), no later tick sends a rate       *)
(* command.  The code does not hold this: duration_match stays None after  *)
(* a mismatch, so the next sample with a matching duration is synced on.   *)
C1_NoRateCommandAfterMismatch == mismatched => RateCmds = <<>>

(* C2: a tick on a malformed datagram ends in the state that the same tick *)
(* with no datagram ends in (no exception, no field, no history entry, no  *)
(* command differs).  The code does not hold this: float() of a            *)
(* non-numeric field raises outside the try of _receive_data.              *)
C2_MalformedIsNoData ==
    [][\A r \in Malformed, local_pos \in LocalPositions,
          status \in StatusReads, local_duration \in LocalDurations,
          step \in TimeSteps :
            TickOn(r, local_pos, status, local_duration, step)
                => TickOn(NoDatagram, local_pos, status, local_duration,
                          step)]_vars

(* C3: no tick ends in the exception of a player read that gave None.  The *)
(* code does not hold this: float(self.player.duration()) raises TypeError *)
(* when duration() gives None.                                              *)
C3_UnavailableReadNeverRaises == ~(exit = "check_file" /\ err = "TypeError")

(* C4: rate is 0, 1 or 2 in every state; a small sync sends a slow-down    *)
(* only from a rate above 0 and a speed-up only from a rate below 2, and   *)
(* when the rate is at the bound in the direction the deviation asks for,  *)
(* it sends no rate command and leaves the rate as it was.                  *)
C4_RateWithinBounds ==
    /\ rate \in {0, 1, 2}
    /\ exit = "small_sync" =>
        /\ (SlowDown \in Range(RateCmds)) => rate_before > 0
        /\ (SpeedUp \in Range(RateCmds)) => rate_before < 2
        /\ ((deviation < 0 /\ rate_before = 0)
                \/ (deviation > 0 /\ rate_before = 2))
            => (RateCmds = <<>> /\ rate = rate_before)

(* A small sync that found the rate at its upper bound.                    *)
C4_Witness ==
    exit = "small_sync" /\ deviation > 0 /\ rate_before = 2 /\ rate = 2

(* C5, as claimed: in a tick that stored a sample whose status differs     *)
(* from the local status, the first command of the tick is the toggle.     *)
(* It fails in the tick that resumes from a catch-up wait, where play()    *)
(* is sent before the sample is looked at.                                  *)
C5_ToggleIsFirstCommand ==
    (ProcessedSample /\ local_status # received_status)
        => (cmds # <<>> /\ cmds[1] = Toggle)

(* C5, amended: in such a tick the toggle is sent, before every rate       *)
(* command of the tick, and the only command that can precede it is the    *)
(* play() of a resume.                                                      *)
C5_ToggleBeforeRateCommands ==
    (ProcessedSample /\ local_status # received_status)
        => \E i \in 1..Len(cmds) :
            /\ cmds[i] = Toggle
            /\ i = 1 \/ (i = 2 /\ cmds[1] = Cmd("play", 0))
            /\ \A j \in 1..Len(cmds) : cmds[j].name = "action" => j > i

(* A tick that toggled and then nudged the rate.                            *)
C5_Witness ==
    /\ exit = "small_sync"
    /\ local_status # received_status
    /\ Len(cmds) = 2 /\ cmds[1] = Toggle /\ cmds[2].name = "action"

(* What C6 asks of a tick: an active nudge is undone by the one inverse    *)
(* command and the rate is 1 afterwards; without a nudge no rate command.  *)
RateResetOnly ==
    /\ rate_before = 2 => (RateCmds = <<SlowDown>> /\ rate = 1)
    /\ rate_before = 0 => (RateCmds = <<SpeedUp>> /\ rate = 1)
    /\ rate_before = 1 => (RateCmds = <<>> /\ rate = 1)

(* The last operation was a tick that stored a sample of a leader that is  *)
(* not paused and left the smoothed deviation within the tolerance.        *)
SampleInTolerance ==
    /\ ProcessedSample
    /\ received_status # Some("Paused")
    /\ Abs(median_deviation) <= DEFAULT_TOLERANCE

(* C6, as claimed: every tick on a sample of a non-paused leader with the  *)
(* smoothed deviation within the tolerance undoes an active nudge.  It     *)
(* fails when the leader is within graceTime of the start: update returns  *)
(* before it looks at the tolerance, and the nudge stays.                   *)
C6_ResetWithinTolerance == SampleInTolerance => RateResetOnly

(* C6, amended: the same, for samples whose leader position is above       *)
(* graceTime.                                                               *)
C6_ResetWithinTolerancePastStart ==
    (SampleInTolerance /\ Val(received_position) > DEFAULT_GRACE_TIME)
        => RateResetOnly

(* A tick that found the deviation within tolerance and undid a speed-up.  *)
C6_Witness ==
    /\ exit = "in_tolerance"
    /\ rate_before = 2 /\ rate = 1 /\ RateCmds = <<SlowDown>>

(* C7: a tick that stored a sample whose leader position is at most        *)
(* graceTime sends no rate command, leaves the rate as it was and does not *)
(* clear the history (it keeps it, or appends the new deviation to it).    *)
C7_NoCorrectionAtStart ==
    [][(ProcessedSample' /\ ops' # ops
            /\ Val(received_position') <= DEFAULT_GRACE_TIME)
        => /\ SelectSeq(cmds', LAMBDA c : c.name = "action") = <<>>
           /\ rate' = rate
           /\ \/ deviations' = deviations
              \/ deviations' = DequeAppend(deviations, deviation')]_vars

(* A tick at the start of the leader's file with a deviation far beyond    *)
(* the tolerance and a history that it kept.                                *)
C7_Witness ==
    /\ exit = "at_start"
    /\ Val(received_position) <= DEFAULT_GRACE_TIME
    /\ Abs(median_deviation) > DEFAULT_TOLERANCE
    /\ Len(deviations) > 1

(* C8: the history holds at most 10 values, and they are the last (up to)  *)
(* 10 deviations appended since the last clear, in the order they came.    *)
C8_HistoryIsLastTen ==
    /\ Len(deviations) <= 10
    /\ deviations = LastOf(pushed, 10)

(* A history that is full and has dropped its oldest value.                *)
C8_Witness ==
    /\ Len(pushed) > 10
    /\ Len(deviations) = 10
    /\ pushed[1] # pushed[Len(pushed)]

(* C9: a big sync called once a sample is stored: when the follower is     *)
(* ahead by less than jumpAhead it sends pause alone and sets paused_until *)
(* to last_measure_time - deviation; in every other case it sends pause,   *)
(* then set_position(received_position + jumpAhead), and sets paused_until *)
(* to last_measure_time + jumpAhead.                                        *)
C9_BigSync ==
    (exit \in {"big_wait", "big_seek", "big_sync"}
            /\ received_position # None)
        => IF deviation < 0 /\ -deviation < DEFAULT_JUMP_AHEAD
           THEN /\ exit = "big_wait"
                /\ cmds = <<Cmd("pause", 0)>>
                /\ paused_until = Some(last_measure_time - deviation)
           ELSE /\ exit = "big_seek"
                /\ cmds = <<Cmd("pause", 0),
                            Cmd("set_position",
                                Val(received_position) + DEFAULT_JUMP_AHEAD)>>
                /\ paused_until = Some(last_measure_time + DEFAULT_JUMP_AHEAD)

(* A big sync of a follower that is ahead by exactly jumpAhead.            *)
C9_Witness == exit = "big_seek" /\ deviation = -DEFAULT_JUMP_AHEAD

(* C10: after a small sync that sent a rate command and after a big sync   *)
(* the history is empty.  The code does not hold this for the big sync:    *)
(* _perform_big_sync leaves self.deviations as it is.                       *)
C10_HistoryClearedByCorrection ==
    ((exit = "small_sync" /\ RateCmds # <<>>) \/ BigSynced)
        => deviations = <<>>

(* C11: a small sync sends a slow-down only when the smoothed deviation   *)
(* that exceeded the tolerance is negative and a speed-up only when it is  *)
(* positive.  The code does not hold this: update() tests the median, but  *)
(* _perform_small_sync takes the direction from the raw self.deviation of  *)
(* the last sample, which can have the other sign.                          *)
C11_NudgeFollowsSmoothedDeviation ==
    exit = "small_sync" =>
        /\ (SlowDown \in Range(RateCmds)) => median_deviation < 0
        /\ (SpeedUp \in Range(RateCmds)) => median_deviation > 0

(* The step is a tick: a call of update(), not of _perform_big_sync().     *)
TickStep ==
    ops' # ops /\ exit' \notin {"big_wait", "big_seek", "big_sync"}

(* The number of commands of the given name among a sequence of commands.  *)
CountOf(cs, name) == Len(SelectSeq(cs, LAMBDA c : c.name = name))

(* C12: a tick at a time before a set paused_until sends no command and    *)
(* leaves paused_until, dont_sync_until, rate, duration_match and the      *)
(* history as they were, whatever the socket held.                          *)
C12_WaitingTickDoesNothing ==
    [][(TickStep /\ paused_until # None /\ now' < Val(paused_until))
        => /\ cmds' = <<>>
           /\ paused_until' = paused_until
           /\ dont_sync_until' = dont_sync_until
           /\ rate' = rate
           /\ duration_match' = duration_match
           /\ deviations' = deviations]_vars

(* A tick that found the catch-up wait still running.                      *)
C12_Witness ==
    /\ exit = "waiting"
    /\ paused_until # None
    /\ last_measure_time < Val(paused_until)

(* C13: a tick that reads the player's position and status at a time at or *)
(* after a set paused_until clears paused_until, sends play exactly once   *)
(* and sets dont_sync_until to that time plus graceTime; and no tick sets  *)
(* paused_until (only a big sync does).                                     *)
C13_ResumeWhenDue ==
    [][TickStep =>
        /\ (/\ paused_until # None
            /\ now' >= Val(paused_until)
            /\ exit' \notin {"no_position", "no_status"})
            => /\ paused_until' = None
               /\ CountOf(cmds', "play") = 1
               /\ dont_sync_until' = now' + DEFAULT_GRACE_TIME
        /\ paused_until = None => paused_until' = None]_vars

(* A tick that ended a catch-up wait.                                       *)
C13_Witness ==
    /\ cmds # <<>> /\ cmds[1] = Cmd("play", 0)
    /\ paused_until = None
    /\ dont_sync_until = last_measure_time + DEFAULT_GRACE_TIME

(* C14: a tick at a time before dont_sync_until performs no small sync:   *)
(* the rate stays as it was or is reset to 1, and the history is kept (or  *)
(* the new deviation appended to it), not cleared, however large the       *)
(* smoothed deviation is.                                                   *)
C14_NoSmallSyncInGrace ==
    [][(TickStep /\ now' < dont_sync_until')
        => /\ rate' \in {rate, 1}
           /\ \/ deviations' = deviations
              \/ deviations' = DequeAppend(deviations, deviation')]_vars

(* A tick after the one that resumed, still within the grace time, with a  *)
(* smoothed deviation beyond the tolerance.                                 *)
C14_Witness ==
    /\ exit = "post_sync_grace"
    /\ cmds = <<>>
    /\ last_measure_time < dont_sync_until
    /\ Abs(median_deviation) > DEFAULT_TOLERANCE

(* C15: a tick that stored a sample of a non-paused leader, with the       *)
(* duration confirmed, the leader position above graceTime and the leader  *)
(* duration less than graceTime beyond the local position, sends no nudge  *)
(* and appends to the history without clearing it; a rate other than 1 is  *)
(* reset to 1 by the one inverse command, and with rate 1 no rate command  *)
(* is sent.                                                                 *)
C15_NearEndOnlyResets ==
    [][(/\ TickStep
        /\ ProcessedSample'
        /\ received_status' # Some("Paused")
        /\ duration_match' = Some(TRUE)
        /\ Val(received_position') > DEFAULT_GRACE_TIME
        /\ Val(received_duration') - (Val(received_position') - deviation')
                < DEFAULT_GRACE_TIME)
        => /\ rate' = 1
           /\ SelectSeq(cmds', LAMBDA c : c.name = "action")
                = IF rate = 2 THEN <<SlowDown>>
                  ELSE IF rate = 0 THEN <<SpeedUp>> ELSE <<>>
           /\ deviations' = DequeAppend(deviations, deviation')]_vars

(* A tick near the end of the file that undid a speed-up, with a deviation *)
(* far beyond the tolerance.                                                *)
C15_Witness ==
    /\ exit = "near_end"
    /\ rate_before = 2 /\ rate = 1
    /\ Abs(median_deviation) > DEFAULT_TOLERANCE

(* C16: once duration_match is True it stays True, and no later tick       *)
(* compares the durations: none ends in the mismatch report or in the      *)
(* failure of reading the player's duration, so a sample with another      *)
(* leader duration is used for drift correction like any other.            *)
C16_DurationMatchIsSticky ==
    [][duration_match = Some(TRUE)
        => /\ duration_match' = Some(TRUE)
           /\ mismatched' = mismatched
           /\ exit' \notin {"mismatch", "check_file"}]_vars

(* A small sync on a sample whose leader duration (9.0 s) is not the       *)
(* follower's (9.9 s), after the durations had matched.                     *)
C16_Witness ==
    /\ duration_match = Some(TRUE)
    /\ received_duration = Some(360)
    /\ exit = "small_sync"
    /\ RateCmds # <<>>

(* C19: in every state rate - 1 is the number of speed-ups sent minus the *)
(* number of slow-downs sent since the engine was constructed.             *)
C19_RateMirrorsCommands == rate - 1 = rate_sent

(* A slow-down nudge followed by the reset that undid it.                  *)
C19_Witness ==
    /\ exit = "in_tolerance"
    /\ rate_before = 0 /\ rate = 1
    /\ rate_sent = 0

(* C18: after a tick that sent the toggle because the local status was    *)
(* not the leader's, the player's status is the leader's reported status.  *)
(* The code does not hold this: play_pause() only switches between Playing *)
(* and Paused, so it cannot reach "Stopped", and in a tick that resumed    *)
(* from a catch-up wait it undoes the play() sent just before.             *)
C18_ToggleMatchesLeader ==
    (ProcessedSample /\ err = "none" /\ Toggle \in Range(cmds))
        => Some(playerStatus) = received_status

(* C20: in the tick that ends a catch-up wait with play(), a sample of a   *)
(* playing leader brings no toggle and the player is playing afterwards.   *)
(* The code does not hold this: local_status was read before play(), so it *)
(* is still "Paused", differs from "Playing", and play_pause() pauses the  *)
(* player again.                                                            *)
C20_ResumeNotUndone ==
    (/\ ProcessedSample
     /\ cmds # <<>> /\ cmds[1] = Cmd("play", 0)
     /\ received_status = Some("Playing"))
        => (Toggle \notin Range(cmds) /\ playerStatus = "Playing")

(* update_loop has ended: its while read "Stopped", or a tick raised.      *)
LoopEnded ==
    \/ exit = "loop_exit"
    \/ err # "none" /\ exit \in {"store", "check_file"}

(* C17: the loop goes on, tick after tick, as long as the status read by   *)
(* its while is not "Stopped": it has ended only if that read gave         *)
(* "Stopped".  The code does not hold this: an exception raised by a tick  *)
(* (C2, C3) leaves update_loop while the player is still playing.          *)
C17_LoopEndsOnlyWhenStopped ==
    LoopEnded => (exit = "loop_exit" /\ playerStatus = "Stopped")

====
